---- MODULE Spec2Model ----
(***************************************************************************)
(* A model of assemblyline/lib/assemble/assembler.py: the k-mer graph      *)
(* lift, the attribution of partial paths, the smoothing passes, the       *)
(* reconstruction of exon paths and the allocation of transcript ids.      *)
(*                                                                         *)
(* A graph vertex is an Exon, the pair <<start, end>>.  A k-mer is a       *)
(* tuple of Exons.  Densities are Python floats in the source; the model   *)
(* computes them as exact rationals <<numerator, denominator>> in lowest   *)
(* terms, so rounding is abstracted away and nothing else is.              *)
(***************************************************************************)
EXTENDS Integers, Sequences, FiniteSets, TLC

VARIABLES
    pc,                    \* position of the (single) driver call
    G,                     \* transcript graph: [nodes, edges, chain, tss_id]
    strand,                \* strand of G
    partial_paths,         \* input list of <<path, density>> pairs
    kmax,                  \* input parameter kmax
    max_paths,             \* input parameter max_paths
    k,                     \* the k chosen by the driver
    K,                     \* k-mer graph: [nodes, edges, node]
    K0,                    \* K as it was when smooth_kmer_graph was entered
    path_bins,             \* bin -> list of <<path, density>> still to attribute
    attributed,            \* the <<path, density>> pairs attributed so far, in order
    kmer_paths,            \* the k-mer paths the finder handed out, in order
    path_info_list,        \* PathInfo records reported by the call
    error,                 \* exception raised by the call ("none" if none)
    GLOBAL_TRANSCRIPT_ID,  \* the module-level counter
    initial_id,            \* value of the counter when the process started
    tpc,                   \* concurrent calls: position of each call
    todo,                  \* concurrent calls: paths each call still has to report
    info_tx_id,            \* concurrent calls: tx_id stored in the PathInfo in hand
    loaded,                \* concurrent calls: operand loaded by "+= 1"
    reported               \* tx_ids reported so far, in order, with the reporting call

vars == <<pc, G, strand, partial_paths, kmax, max_paths, k, K, K0, path_bins,
          attributed, kmer_paths, path_info_list, error, GLOBAL_TRANSCRIPT_ID,
          initial_id, tpc, todo, info_tx_id, loaded, reported>>

driverVars == <<pc, G, strand, partial_paths, kmax, max_paths, k, K, K0, path_bins,
                attributed, kmer_paths, path_info_list, error>>

callVars == <<tpc, todo, info_tx_id, loaded, reported>>

(***************************************************************************)
(* Bounds of the model.                                                    *)
(***************************************************************************)
NumNodes == 3
KMax == 3
MaxChain == 2
NumCalls == 2
MaxReports == 2

(***************************************************************************)
(* Sequences.                                                              *)
(***************************************************************************)
Last(s) == s[Len(s)]

Front(s) == SubSeq(s, 1, Len(s) - 1)

Reverse(s) == [i \in 1..Len(s) |-> s[Len(s) + 1 - i]]

Range(s) == {s[i] : i \in 1..Len(s)}

RECURSIVE Flatten(_)
Flatten(ss) == IF Len(ss) = 0 THEN <<>> ELSE Head(ss) \o Flatten(Tail(ss))

RECURSIVE SetToSeq(_)
SetToSeq(S) ==
    IF S = {} THEN <<>>
    ELSE LET x == CHOOSE y \in S : TRUE IN <<x>> \o SetToSeq(S \ {x})

(***************************************************************************)
(* Exons and strands.                                                      *)
(***************************************************************************)
Exon(s, e) == <<s, e>>

exon_start(x) == x[1]

exon_end(x) == x[2]

POS_STRAND == "POS_STRAND"

NEG_STRAND == "NEG_STRAND"

(***************************************************************************)
(* Exact rational arithmetic standing for the float arithmetic.            *)
(***************************************************************************)
Abs(n) == IF n < 0 THEN -n ELSE n

RECURSIVE GCD(_, _)
GCD(a, b) == IF b = 0 THEN a ELSE GCD(b, a % b)

RNorm(n, d) ==
    LET g == GCD(Abs(n), Abs(d))
        s == IF d < 0 THEN -1 ELSE 1
    IN  <<(s * n) \div g, (s * d) \div g>>

RZero == <<0, 1>>

RInt(i) == <<i, 1>>

RAdd(a, b) == RNorm(a[1] * b[2] + b[1] * a[2], a[2] * b[2])

RMul(a, b) == RNorm(a[1] * b[1], a[2] * b[2])

RDiv(a, b) == RNorm(a[1] * b[2], a[2] * b[1])

RECURSIVE RSum(_)
RSum(s) == IF Len(s) = 0 THEN RZero ELSE RAdd(Head(s), RSum(Tail(s)))

(***************************************************************************)
(* networkx DiGraph accessors.                                             *)
(***************************************************************************)
successors(Gr, n) == {v \in Gr.nodes : <<n, v>> \in Gr.edges}

predecessors(Gr, n) == {u \in Gr.nodes : <<u, n>> \in Gr.edges}

in_degree(Gr, n) == Cardinality(predecessors(Gr, n))

out_degree(Gr, n) == Cardinality(successors(Gr, n))

(***************************************************************************)
(* add_dummy_start_end_nodes and its helper.                               *)
(***************************************************************************)
source_dummy_nodes(kk) == [i \in 1..kk |-> Exon(-i, -i)]

sink_dummy_nodes(kk) == Reverse([i \in 1..kk |-> Exon(-(kk + i), -(kk + i))])

_add_dummy_nodes(Gr, dummy_nodes) ==
    [Gr EXCEPT !.nodes = @ \cup Range(dummy_nodes),
               !.edges = @ \cup {<<dummy_nodes[i - 1], dummy_nodes[i]>> :
                                    i \in 2..Len(dummy_nodes)}]

connect_leaves_first(Gr, kk, start_nodes, end_nodes) ==
    [Gr EXCEPT !.edges = @ \cup {<<source_dummy_nodes(kk)[1], n>> : n \in start_nodes}
                           \cup {<<n, sink_dummy_nodes(kk)[1]>> : n \in end_nodes}]

connect_leaves(Gr, kk, start_nodes, end_nodes) ==
    [Gr EXCEPT !.edges = @ \cup {<<Last(source_dummy_nodes(kk)), n>> : n \in start_nodes}
                           \cup {<<n, sink_dummy_nodes(kk)[1]>> : n \in end_nodes}]

add_dummy_start_end_nodes(Gr, kk) ==
    LET start_nodes == {n \in Gr.nodes : in_degree(Gr, n) = 0}
        end_nodes == {n \in Gr.nodes : out_degree(Gr, n) = 0}
        G1 == _add_dummy_nodes(Gr, source_dummy_nodes(kk))
        G2 == _add_dummy_nodes(G1, sink_dummy_nodes(kk))
    IN  connect_leaves(G2, kk, start_nodes, end_nodes)

(***************************************************************************)
(* get_forward_kmers: depth-first expansion with an explicit stack.        *)
(***************************************************************************)
RECURSIVE forward_kmers_loop(_, _, _, _)
forward_kmers_loop(Gr, stack, paths, kk) ==
    IF Len(stack) = 0 THEN paths
    ELSE LET path == Last(stack)
             rest == Front(stack)
             succ == SetToSeq(successors(Gr, Last(path)))
         IN  IF Len(path) = kk
             THEN forward_kmers_loop(Gr, rest, Append(paths, path), kk)
             ELSE forward_kmers_loop(Gr,
                      rest \o [i \in 1..Len(succ) |-> Append(path, succ[i])],
                      paths, kk)

get_forward_kmers(Gr, seed_path, kk) == forward_kmers_loop(Gr, <<seed_path>>, <<>>, kk)

(***************************************************************************)
(* create_kmer_graph.  kmer_hash maps a (k-1)-mer to the vertices seen     *)
(* before it (REV) and after it (FWD); K.add_edge adds an endpoint that    *)
(* is not a vertex yet.                                                    *)
(***************************************************************************)
all_kmers(Gr, kk) == UNION {Range(get_forward_kmers(Gr, <<n>>, kk)) : n \in Gr.nodes}

kmer_hash_rev_prefix(kmers, kminus1mer) ==
    {kmer[1] : kmer \in {x \in kmers : Front(x) = kminus1mer}}

kmer_hash_rev(kmers, kminus1mer) ==
    {kmer[1] : kmer \in {x \in kmers : Tail(x) = kminus1mer}}

kmer_hash_fwd(kmers, kminus1mer) ==
    {Last(kmer) : kmer \in {x \in kmers : Front(x) = kminus1mer}}

new_kmer_attrs == [density |-> RZero, smfwd |-> RZero, smrev |-> RZero, smtmp |-> RZero]

create_kmer_graph(Gr, kk) ==
    LET kmers == all_kmers(Gr, kk)
        keys == {Tail(x) : x \in kmers} \cup {Front(x) : x \in kmers}
        edges == UNION {{<<(<<rev_node>> \o kminus1mer), Append(kminus1mer, fwd_node)>> :
                            fwd_node \in kmer_hash_fwd(kmers, kminus1mer),
                            rev_node \in kmer_hash_rev(kmers, kminus1mer)} :
                        kminus1mer \in keys}
    IN  [nodes |-> kmers \cup {e[1] : e \in edges} \cup {e[2] : e \in edges},
         edges |-> edges,
         node |-> [x \in kmers |-> new_kmer_attrs]]

(***************************************************************************)
(* find_suboptimal_paths lives in path_finder.py; by its contract it hands *)
(* out source-to-sink paths of K.  Any such path may be handed out.        *)
(***************************************************************************)
RECURSIVE paths_from(_, _)
paths_from(Kg, walk) ==
    IF successors(Kg, Last(walk)) = {} THEN {walk}
    ELSE UNION {paths_from(Kg, Append(walk, v)) : v \in successors(Kg, Last(walk))}

source_sink_paths(Kg) ==
    UNION {paths_from(Kg, <<u>>) : u \in {n \in Kg.nodes : in_degree(Kg, n) = 0}}

(***************************************************************************)
(* expand_path_chains and the driver lines that feed it.                   *)
(***************************************************************************)
merged_exon(chain) == Exon(exon_start(chain[1]), exon_end(Last(chain)))

RECURSIVE collapse_loop(_, _, _)
collapse_loop(rest, chain, newpath) ==
    IF Len(rest) = 0 THEN Append(newpath, merged_exon(chain))
    ELSE LET v == Head(rest)
         IN  IF exon_end(Last(chain)) # exon_start(v)
             THEN collapse_loop(Tail(rest), <<v>>, Append(newpath, merged_exon(chain)))
             ELSE collapse_loop(Tail(rest), Append(chain, v), newpath)

no_collapse(path) == path

collapse_contiguous(path) == collapse_loop(Tail(path), <<path[1]>>, <<>>)

get_chains(Gr, path) == Flatten([i \in 1..Len(path) |-> Gr.chain[path[i]]])

expand_then_reverse(Gr, strnd, path) ==
    LET expanded == get_chains(Gr, path)
    IN  collapse_contiguous(IF strnd = NEG_STRAND THEN Reverse(expanded) ELSE expanded)

expand_path_chains(Gr, strnd, path) ==
    LET oriented == IF strnd = NEG_STRAND THEN Reverse(path) ELSE path
    IN  collapse_contiguous(get_chains(Gr, oriented))

nodes_from_kmer_path(kp) == kp[1] \o [i \in 1..(Len(kp) - 1) |-> Last(kp[i + 1])]

remove_dummy_nodes(path) == SelectSeq(path, LAMBDA n : exon_start(n) >= 0)

(***************************************************************************)
(* Input graphs.  Real exons are disjoint intervals of width 12, some      *)
(* touching their neighbour and some not; an edge runs in the direction of *)
(* transcription.  A chain lists the child exons of a vertex from small to *)
(* large coordinates whatever the strand ("all paths go from small ->      *)
(* large genomic coords" after the vertex order alone is reversed).        *)
(***************************************************************************)
ExonOf(i) == Exon(12 * (i - 1) + 5 * (i \div 2), 12 * i + 5 * (i \div 2))

ChainOf(x, c) ==
    [j \in 1..c |->
        Exon(exon_start(x) + ((j - 1) * 12) \div c,
             exon_start(x) + (j * 12) \div c - (IF j % 2 = 1 /\ j < c THEN 1 ELSE 0))]

InputGraphs(strnd) ==
    UNION {
      LET nodes == {ExonOf(i) : i \in 1..n}
          pairs == {<<i, j>> \in (1..n) \X (1..n) : i < j}
      IN  {[nodes |-> nodes,
            edges |-> {IF strnd = NEG_STRAND THEN <<ExonOf(e[2]), ExonOf(e[1])>>
                       ELSE <<ExonOf(e[1]), ExonOf(e[2])>> : e \in es},
            chain |-> [x \in nodes |-> ChainOf(x, cs[x])],
            tss_id |-> [x \in nodes |-> exon_start(x)]] :
              es \in SUBSET pairs, cs \in [nodes -> 1..MaxChain]}
      : n \in 1..NumNodes}

Strands == {POS_STRAND, NEG_STRAND}

(***************************************************************************)
(* The idle values of the variables a specification does not use.          *)
(***************************************************************************)
NoGraph == [nodes |-> {}, edges |-> {}, node |-> <<>>]

CallsIdle ==
    /\ tpc = <<>>
    /\ todo = <<>>
    /\ info_tx_id = <<>>
    /\ loaded = <<>>
    /\ reported = <<>>

(***************************************************************************)
(* GraphSpec: anchoring, the lift and the reconstruction of a path, on     *)
(* every input graph within the bounds.                                    *)
(***************************************************************************)
GraphInit ==
    /\ pc = "start"
    /\ strand \in Strands
    /\ G \in InputGraphs(strand)
    /\ k \in 2..KMax
    /\ partial_paths = <<>>
    /\ kmax = k
    /\ max_paths = 1
    /\ K = NoGraph
    /\ K0 = NoGraph
    /\ path_bins = <<>>
    /\ attributed = <<>>
    /\ kmer_paths = <<>>
    /\ path_info_list = <<>>
    /\ error = "none"
    /\ GLOBAL_TRANSCRIPT_ID = 0
    /\ initial_id = 0
    /\ CallsIdle

AddDummy ==
    /\ pc = "start"
    /\ G' = add_dummy_start_end_nodes(G, k)
    /\ pc' = "anchored"
    /\ UNCHANGED <<strand, partial_paths, kmax, max_paths, k, K, K0, path_bins,
                   attributed, kmer_paths, path_info_list, error,
                   GLOBAL_TRANSCRIPT_ID, initial_id>>
    /\ UNCHANGED callVars

CreateKmerGraph ==
    /\ pc = "anchored"
    /\ K' = create_kmer_graph(G, k)
    /\ pc' = "lifted"
    /\ UNCHANGED <<G, strand, partial_paths, kmax, max_paths, k, K0, path_bins,
                   attributed, kmer_paths, path_info_list, error,
                   GLOBAL_TRANSCRIPT_ID, initial_id>>
    /\ UNCHANGED callVars

same_transcript_id(v) == v

next_transcript_id(v) == v + 1

(* PathInfo.density is the value the finder hands out with the path; the
   model leaves it out. *)
PathInfo(tss_id, path, tx_id) == [tss_id |-> tss_id, path |-> path, tx_id |-> tx_id]

ReportPath(from) ==
    /\ pc = from
    /\ Len(path_info_list) < max_paths
    /\ \E kp \in source_sink_paths(K) :
          LET path == remove_dummy_nodes(nodes_from_kmer_path(kp))
              tss_id == G.tss_id[path[1]]
          IN  /\ kmer_paths' = Append(kmer_paths, kp)
              /\ path_info_list' = Append(path_info_list,
                     PathInfo(tss_id, expand_path_chains(G, strand, path),
                              GLOBAL_TRANSCRIPT_ID))
    /\ GLOBAL_TRANSCRIPT_ID' = next_transcript_id(GLOBAL_TRANSCRIPT_ID)
    /\ UNCHANGED <<pc, G, strand, partial_paths, kmax, max_paths, k, K, K0, path_bins,
                   attributed, error, initial_id>>
    /\ UNCHANGED callVars

ReportLifted == ReportPath("lifted")

GraphNext == AddDummy \/ CreateKmerGraph \/ ReportLifted

GraphSpec == GraphInit /\ [][GraphNext]_vars

(***************************************************************************)
(* extend_path_reverse / extend_path_forward: the extensions of a seed by  *)
(* `length` vertices, by depth-first expansion with an explicit stack.     *)
(***************************************************************************)
RECURSIVE extend_reverse_loop(_, _, _, _)
extend_reverse_loop(Gr, stack, paths, length) ==
    IF Len(stack) = 0 THEN paths
    ELSE LET path == Last(stack)
             rest == Front(stack)
             pred == SetToSeq(predecessors(Gr, path[1]))
         IN  IF Len(path) = length + 1
             THEN extend_reverse_loop(Gr, rest, Append(paths, Front(path)), length)
             ELSE extend_reverse_loop(Gr,
                      rest \o [i \in 1..Len(pred) |-> <<pred[i]>> \o path],
                      paths, length)

extend_path_reverse(Gr, seed, length) == extend_reverse_loop(Gr, <<<<seed>>>>, <<>>, length)

RECURSIVE extend_forward_loop(_, _, _, _)
extend_forward_loop(Gr, stack, paths, length) ==
    IF Len(stack) = 0 THEN paths
    ELSE LET path == Last(stack)
             rest == Front(stack)
             succ == SetToSeq(successors(Gr, Last(path)))
         IN  IF Len(path) = length + 1
             THEN extend_forward_loop(Gr, rest, Append(paths, Tail(path)), length)
             ELSE extend_forward_loop(Gr,
                      rest \o [i \in 1..Len(succ) |-> Append(path, succ[i])],
                      paths, length)

extend_path_forward(Gr, seed, length) == extend_forward_loop(Gr, <<<<seed>>>>, <<>>, length)

(***************************************************************************)
(* _get_partial_path_kmers.                                                *)
(***************************************************************************)
Lrev_floor(L) == L \div 2

Lrev(L) == (L + 1) \div 2

Lfwd(L) == L \div 2

_get_partial_path_kmers(Gr, seed_path, kk) ==
    LET L == kk - Len(seed_path)
        rev_paths == extend_path_reverse(Gr, seed_path[1], Lrev(L))
        fwd_paths == extend_path_forward(Gr, Last(seed_path), Lfwd(L))
    IN  Flatten([i \in 1..Len(rev_paths) |->
                    [j \in 1..Len(fwd_paths) |-> rev_paths[i] \o seed_path \o fwd_paths[j]]])

(***************************************************************************)
(* _extend_partial_paths.                                                  *)
(***************************************************************************)
RECURSIVE extend_backward(_, _)
extend_backward(Gr, new_path) ==
    LET preds == predecessors(Gr, new_path[1])
    IN  IF Cardinality(preds) = 1
        THEN extend_backward(Gr, <<CHOOSE u \in preds : TRUE>> \o new_path)
        ELSE new_path

RECURSIVE extend_forward(_, _)
extend_forward(Gr, new_path) ==
    LET succs == successors(Gr, Last(new_path))
    IN  IF Cardinality(succs) = 1
        THEN extend_forward(Gr, Append(new_path, CHOOSE v \in succs : TRUE))
        ELSE new_path

_extend_partial_paths(Gr, pps) ==
    [i \in 1..Len(pps) |-> <<extend_forward(Gr, extend_backward(Gr, pps[i][1])), pps[i][2]>>]

(***************************************************************************)
(* _bin_partial_paths: bins by min(len, k), each bin sorted by density     *)
(* (list.sort is stable).                                                  *)
(***************************************************************************)
kbin_of(path, kk) == IF Len(path) > kk THEN kk ELSE Len(path)

RECURSIVE insert_by_density(_, _)
insert_by_density(sorted, x) ==
    IF Len(sorted) = 0 THEN <<x>>
    ELSE IF Last(sorted)[2] <= x[2] THEN Append(sorted, x)
         ELSE Append(insert_by_density(Front(sorted), x), Last(sorted))

unsorted_bin(pps) == pps

RECURSIVE sort_by_density(_)
sort_by_density(pps) ==
    IF Len(pps) = 0 THEN <<>>
    ELSE insert_by_density(sort_by_density(Front(pps)), Last(pps))

_bin_partial_paths(Gr, pps, kk) ==
    [kbin \in {kbin_of(pps[i][1], kk) : i \in 1..Len(pps)} |->
        sort_by_density(SelectSeq(pps, LAMBDA x : kbin_of(x[1], kk) = kbin))]

(***************************************************************************)
(* _add_partial_paths_bin: one turn of its while loop, for the path and    *)
(* density popped from the end of the bin.  The result is the new          *)
(* K.node, or the exception the turn raises.                               *)
(***************************************************************************)
add_to(attrs, kmer, attr, amount) ==
    [attrs EXCEPT ![kmer][attr] = RAdd(@, amount)]

add_all_three(attrs, kmer, amount) ==
    add_to(add_to(add_to(attrs, kmer, "density", amount), kmer, "smfwd", amount),
           kmer, "smrev", amount)

RECURSIVE add_equally(_, _, _)
add_equally(attrs, kmers, avg_density) ==
    IF Len(kmers) = 0 THEN attrs
    ELSE add_equally(add_all_three(attrs, Head(kmers), avg_density), Tail(kmers), avg_density)

RECURSIVE add_proportionately(_, _, _, _)
add_proportionately(attrs, kmers, total_density, density) ==
    IF Len(kmers) = 0 THEN attrs
    ELSE LET frac == RDiv(attrs[Head(kmers)].density, total_density)
             adj_density == RMul(frac, density)
         IN  add_proportionately(add_all_three(attrs, Head(kmers), adj_density),
                                 Tail(kmers), total_density, density)

add_short_path(Gr, Kg, path, density, kk) ==
    LET kmers == _get_partial_path_kmers(Gr, path, kk)
    IN  IF \E i \in 1..Len(kmers) : kmers[i] \notin DOMAIN Kg.node
        THEN [raised |-> "KeyError", node |-> Kg.node]
        ELSE LET total_density == RSum([i \in 1..Len(kmers) |-> Kg.node[kmers[i]].density])
             IN  IF total_density = RZero
                 THEN IF Len(kmers) = 0
                      THEN [raised |-> "ZeroDivisionError", node |-> Kg.node]
                      ELSE [raised |-> "none",
                            node |-> add_equally(Kg.node, kmers,
                                         RDiv(density, RInt(Len(kmers))))]
                 ELSE [raised |-> "none",
                       node |-> add_proportionately(Kg.node, kmers, total_density, density)]

RECURSIVE add_windows(_, _, _, _, _)
add_windows(attrs, path, i, density, kk) ==
    IF i > Len(path) - kk + 1 THEN attrs
    ELSE add_windows(add_to(attrs, SubSeq(path, i, i + kk - 1), "density", density),
                     path, i + 1, density, kk)

smooth_fwd_kmer_first(path, kk) == SubSeq(path, 1, kk)

smooth_fwd_kmer(path, kk) == SubSeq(path, Len(path) - kk + 1, Len(path))

add_long_path(Kg, path, density, kk) ==
    IF \E i \in 1..(Len(path) - kk + 1) : SubSeq(path, i, i + kk - 1) \notin Kg.nodes
    THEN [raised |-> "AssertionError", node |-> Kg.node]
    ELSE LET first == add_to(add_to(Kg.node, SubSeq(path, 1, kk), "density", density),
                             SubSeq(path, 1, kk), "smrev", density)
             rest == add_windows(first, path, 2, density, kk)
         IN  [raised |-> "none",
              node |-> add_to(rest, smooth_fwd_kmer(path, kk), "smfwd", density)]

add_partial_path(Gr, Kg, path, density, kk) ==
    IF Len(path) < kk
    THEN add_short_path(Gr, Kg, path, RInt(density), kk)
    ELSE add_long_path(Kg, path, RInt(density), kk)

(***************************************************************************)
(* smooth_iteration and smooth_kmer_graph.                                 *)
(***************************************************************************)
RECURSIVE reverse_topological_sort(_, _)
reverse_topological_sort(Kg, left) ==
    IF left = {} THEN <<>>
    ELSE LET u == CHOOSE n \in left : successors(Kg, n) \cap left = {}
         IN  <<u>> \o reverse_topological_sort(Kg, left \ {u})

RECURSIVE topological_sort(_, _)
topological_sort(Kg, left) ==
    IF left = {} THEN <<>>
    ELSE LET u == CHOOSE n \in left : predecessors(Kg, n) \cap left = {}
         IN  <<u>> \o topological_sort(Kg, left \ {u})

add_smooth_keep(attrs, v, smooth_attr, amount) == add_to(attrs, v, "smtmp", amount)

add_smooth(attrs, v, smooth_attr, amount) ==
    add_to(add_to(attrs, v, "smtmp", amount), v, smooth_attr, amount)

RECURSIVE smooth_evenly(_, _, _, _)
smooth_evenly(attrs, succ, smooth_attr, avg_density) ==
    IF Len(succ) = 0 THEN attrs
    ELSE smooth_evenly(add_smooth(attrs, Head(succ), smooth_attr, avg_density),
                       Tail(succ), smooth_attr, avg_density)

RECURSIVE smooth_proportionately(_, _, _, _, _)
smooth_proportionately(attrs, succ, smooth_attr, total_nbr_density, smooth_density) ==
    IF Len(succ) = 0 THEN attrs
    ELSE LET frac == RDiv(attrs[Head(succ)].density, total_nbr_density)
             adj_density == RMul(frac, smooth_density)
         IN  smooth_proportionately(add_smooth(attrs, Head(succ), smooth_attr, adj_density),
                                    Tail(succ), smooth_attr, total_nbr_density,
                                    smooth_density)

smooth_node(Kg, attrs, u, smooth_attr) ==
    LET smooth_density == attrs[u][smooth_attr]
        succ == SetToSeq(successors(Kg, u))
        total_nbr_density == RSum([i \in 1..Len(succ) |-> attrs[succ[i]].density])
    IN  IF Len(succ) = 0 THEN attrs
        ELSE IF total_nbr_density = RZero
             THEN smooth_evenly(attrs, succ, smooth_attr,
                                RDiv(smooth_density, RInt(Len(succ))))
             ELSE smooth_proportionately(attrs, succ, smooth_attr, total_nbr_density,
                                         smooth_density)

RECURSIVE smooth_loop(_, _, _, _)
smooth_loop(Kg, attrs, nodes, smooth_attr) ==
    IF Len(nodes) = 0 THEN attrs
    ELSE smooth_loop(Kg, smooth_node(Kg, attrs, Head(nodes), smooth_attr),
                     Tail(nodes), smooth_attr)

smooth_iteration(Kg, smooth_attr) ==
    [Kg EXCEPT !.node = smooth_loop(Kg, Kg.node, topological_sort(Kg, Kg.nodes), smooth_attr)]

reverse(Kg) == [Kg EXCEPT !.edges = {<<e[2], e[1]>> : e \in Kg.edges}]

apply_densities(Kg) ==
    [Kg EXCEPT !.node = [n \in DOMAIN Kg.node |->
                            [Kg.node[n] EXCEPT !.density = RAdd(@, Kg.node[n].smtmp)]]]

smooth_kmer_graph(Kg) ==
    LET fwd == smooth_iteration(Kg, "smfwd")
        rev == reverse(smooth_iteration(reverse(fwd), "smrev"))
    IN  apply_densities(rev)

(***************************************************************************)
(* Spec: one call of assemble_transcript_graph.                            *)
(***************************************************************************)
MaxPaths == 2
MaxDensity == 2

RECURSIVE real_walks(_, _)
real_walks(Gr, n) ==
    IF n = 0 THEN {}
    ELSE real_walks(Gr, n - 1) \cup
         {w \in UNION {[1..n -> Gr.nodes]} :
             \A i \in 1..(n - 1) : <<w[i], w[i + 1]>> \in Gr.edges}

RECURSIVE lists_up_to(_, _)
lists_up_to(S, n) ==
    IF n = 0 THEN {<<>>}
    ELSE lists_up_to(S, n - 1) \cup
         {Append(l, x) : l \in {m \in lists_up_to(S, n - 1) : Len(m) = n - 1}, x \in S}

MakeGraph(strnd, n, pairs) ==
    LET nodes == {ExonOf(i) : i \in 1..n}
    IN  [nodes |-> nodes,
         edges |-> {IF strnd = NEG_STRAND THEN <<ExonOf(e[2]), ExonOf(e[1])>>
                    ELSE <<ExonOf(e[1]), ExonOf(e[2])>> : e \in pairs},
         chain |-> [x \in nodes |-> ChainOf(x, IF exon_start(x) % 2 = 0 THEN 1 ELSE 2)],
         tss_id |-> [x \in nodes |-> exon_start(x)]]

DriverInputs ==
    {<<POS_STRAND, MakeGraph(POS_STRAND, 2, {<<1, 2>>})>>,
     <<POS_STRAND, MakeGraph(POS_STRAND, 3, {<<1, 3>>, <<2, 3>>})>>,
     <<NEG_STRAND, MakeGraph(NEG_STRAND, 3, {<<1, 3>>, <<2, 3>>})>>,
     <<POS_STRAND, MakeGraph(POS_STRAND, 5, {<<1, 3>>, <<2, 3>>, <<3, 4>>, <<3, 5>>})>>,
     <<POS_STRAND, MakeGraph(POS_STRAND, 6, {<<1, 3>>, <<2, 3>>, <<3, 4>>, <<4, 5>>,
                                             <<4, 6>>})>>}

Init ==
    /\ pc = "called"
    /\ \E in \in DriverInputs :
          /\ strand = in[1]
          /\ G = in[2]
          /\ partial_paths \in
                lists_up_to(real_walks(in[2], Cardinality(in[2].nodes)) \X (0..MaxDensity),
                            MaxPaths)
    /\ kmax \in 1..KMax
    /\ max_paths = 1
    /\ k = 0
    /\ K = NoGraph
    /\ K0 = NoGraph
    /\ path_bins = <<>>
    /\ attributed = <<>>
    /\ kmer_paths = <<>>
    /\ path_info_list = <<>>
    /\ error = "none"
    /\ GLOBAL_TRANSCRIPT_ID = 0
    /\ initial_id = 0
    /\ CallsIdle

max2(a, b) == IF a >= b THEN a ELSE b

min2(a, b) == IF a <= b THEN a ELSE b

longest_path(pps) == CHOOSE n \in {Len(pps[i][1]) : i \in 1..Len(pps)} :
                        \A i \in 1..Len(pps) : Len(pps[i][1]) <= n

(* lines 335-345: max() of an empty sequence raises ValueError *)
ChooseK ==
    /\ pc = "called"
    /\ IF Len(partial_paths) = 0
       THEN /\ error' = "ValueError"
            /\ pc' = "raised"
            /\ k' = k
       ELSE /\ k' = max2(2, min2(max2(2, kmax), longest_path(partial_paths)))
            /\ pc' = "start"
            /\ error' = error
    /\ UNCHANGED <<G, strand, partial_paths, kmax, max_paths, K, K0, path_bins,
                   attributed, kmer_paths, path_info_list,
                   GLOBAL_TRANSCRIPT_ID, initial_id>>
    /\ UNCHANGED callVars

(* lines 248-251 *)
BinPartialPaths ==
    /\ pc = "lifted"
    /\ path_bins' = _bin_partial_paths(G, _extend_partial_paths(G, partial_paths), k)
    /\ pc' = "binned"
    /\ UNCHANGED <<G, strand, partial_paths, kmax, max_paths, k, K, K0,
                   attributed, kmer_paths, path_info_list, error,
                   GLOBAL_TRANSCRIPT_ID, initial_id>>
    /\ UNCHANGED callVars

nonempty_bins == {b \in DOMAIN path_bins : Len(path_bins[b]) > 0}

(* line 253 and one turn of the loop at 195-238 *)
AddPartialPath ==
    /\ pc = "binned"
    /\ nonempty_bins # {}
    /\ LET kbin == CHOOSE b \in nonempty_bins : \A c \in nonempty_bins : c <= b
           next == Last(path_bins[kbin])
           res == add_partial_path(G, K, next[1], next[2], k)
       IN  /\ K0' = K
           /\ K' = [K EXCEPT !.node = res.node]
           /\ error' = res.raised
           /\ pc' = IF res.raised = "none" THEN "binned" ELSE "raised"
           /\ path_bins' = [path_bins EXCEPT ![kbin] = Front(@)]
           /\ attributed' = Append(attributed, next)
    /\ UNCHANGED <<G, strand, partial_paths, kmax, max_paths, k,
                   kmer_paths, path_info_list, GLOBAL_TRANSCRIPT_ID, initial_id>>
    /\ UNCHANGED callVars

(* line 353 *)
SmoothKmerGraph ==
    /\ pc = "binned"
    /\ nonempty_bins = {}
    /\ K0' = K
    /\ K' = smooth_kmer_graph(K)
    /\ pc' = "smoothed"
    /\ UNCHANGED <<G, strand, partial_paths, kmax, max_paths, k, path_bins,
                   attributed, kmer_paths, path_info_list, error,
                   GLOBAL_TRANSCRIPT_ID, initial_id>>
    /\ UNCHANGED callVars

ReportSmoothed == ReportPath("smoothed")

(* line 375 *)
Return ==
    /\ pc = "smoothed"
    /\ pc' = "returned"
    /\ UNCHANGED <<G, strand, partial_paths, kmax, max_paths, k, K, K0, path_bins,
                   attributed, kmer_paths, path_info_list, error,
                   GLOBAL_TRANSCRIPT_ID, initial_id>>
    /\ UNCHANGED callVars

Next ==
    \/ ChooseK
    \/ AddDummy
    \/ CreateKmerGraph
    \/ BinPartialPaths
    \/ AddPartialPath
    \/ SmoothKmerGraph
    \/ ReportSmoothed
    \/ Return

Spec == Init /\ [][Next]_vars

(***************************************************************************)
(* The length-n walks of a graph, built edge by edge.                      *)
(***************************************************************************)
RECURSIVE walks_of_length(_, _)
walks_of_length(Gr, n) ==
    IF n = 1 THEN {<<v>> : v \in Gr.nodes}
    ELSE {Append(p[1], p[2]) :
            p \in {q \in walks_of_length(Gr, n - 1) \X Gr.nodes :
                      <<Last(q[1]), q[2]>> \in Gr.edges}}

Lifted == pc = "lifted"

(* C1: the vertices of K = create_kmer_graph(G, k) are exactly the length-k
   walks of G, every vertex carries its attributes, and u -> v is an edge of
   K iff the last k-1 vertices of u are the first k-1 vertices of v (the last
   vertex of v is then a G-successor of the last vertex of u): the edges
   added through the (k-1)-mer hash bring in no vertex that is not a walk. *)
C1_KmerGraphIsOverlapGraph ==
    Lifted =>
        LET W == walks_of_length(G, k)
        IN  /\ K.nodes = W
            /\ DOMAIN K.node = W
            /\ K.edges = {e \in W \X W : Tail(e[1]) = Front(e[2])}
            /\ \A e \in K.edges : <<Last(e[1]), Last(e[2])>> \in G.edges

C1_Witness ==
    /\ Lifted
    /\ k = 3
    /\ \E u \in K.nodes : out_degree(K, u) >= 2
    /\ \E v \in K.nodes : in_degree(K, v) >= 2

(* C2: after add_dummy_start_end_nodes and create_kmer_graph on a non-empty
   DAG, the only vertex of K without a predecessor is the tuple of the k
   source dummies and the only vertex without a successor is the tuple of
   the k sink dummies. *)
C2_UniqueSourceAndSink ==
    Lifted =>
        /\ {v \in K.nodes : in_degree(K, v) = 0} = {source_dummy_nodes(k)}
        /\ {v \in K.nodes : out_degree(K, v) = 0} = {sink_dummy_nodes(k)}

C2_Witness ==
    /\ Lifted
    /\ k = 3
    /\ out_degree(G, Last(source_dummy_nodes(k))) >= 2
    /\ in_degree(G, sink_dummy_nodes(k)[1]) >= 2
    /\ Cardinality(K.nodes) > 6

(* C3: every reported path has no dummy exon (no negative start), is made of
   non-empty exons in strictly increasing coordinates, and has no two
   consecutive exons where the previous end equals the next start. *)
C3_ReportedPathsClean ==
    \A i \in 1..Len(path_info_list) :
        LET path == path_info_list[i].path
        IN  /\ Len(path) >= 1
            /\ \A j \in 1..Len(path) :
                  exon_start(path[j]) >= 0 /\ exon_start(path[j]) < exon_end(path[j])
            /\ \A j \in 1..(Len(path) - 1) :
                  /\ exon_start(path[j]) < exon_start(path[j + 1])
                  /\ exon_end(path[j]) < exon_start(path[j + 1])

reported_vertices(i) == remove_dummy_nodes(nodes_from_kmer_path(kmer_paths[i]))

last_vertices == reported_vertices(Len(kmer_paths))

C3_Witness ==
    /\ Len(path_info_list) >= 1
    /\ strand = NEG_STRAND
    /\ Len(last_vertices) = 3
    /\ \E j \in 1..3 : Len(G.chain[last_vertices[j]]) = 2
    /\ Len(Last(path_info_list).path) >= 2
    /\ Len(Last(path_info_list).path) < Len(get_chains(G, last_vertices))

(* The reconstruction steps, each on its own. *)
unroll_step(kp) == [i \in 1..(Len(kp[1]) + Len(kp) - 1) |->
                       IF i <= Len(kp[1]) THEN kp[1][i] ELSE kp[i - Len(kp[1]) + 1][Len(kp[1])]]

strip_step(path) == SelectSeq(path, LAMBDA n : exon_start(n) >= 0)

RECURSIVE expand_step(_, _)
expand_step(Gr, path) ==
    IF Len(path) = 0 THEN <<>> ELSE Gr.chain[Head(path)] \o expand_step(Gr, Tail(path))

reverse_step(strnd, path) == IF strnd = NEG_STRAND THEN Reverse(path) ELSE path

RECURSIVE merge_step(_)
merge_step(path) ==
    IF Len(path) <= 1 THEN path
    ELSE IF exon_end(path[1]) = exon_start(path[2])
         THEN merge_step(<<Exon(exon_start(path[1]), exon_end(path[2]))>> \o Tail(Tail(path)))
         ELSE <<path[1]>> \o merge_step(Tail(path))

(* C8 as stated: the reported exon list is unroll, strip, expand, reverse
   (on the reverse strand), merge, in this order. *)
C8_ExpandBeforeReverse ==
    \A i \in 1..Len(path_info_list) :
        path_info_list[i].path =
            merge_step(reverse_step(strand,
                expand_step(G, strip_step(unroll_step(kmer_paths[i])))))

(* C8 amended: the reported exon list is unroll, strip, reverse the vertex
   sequence (on the reverse strand), expand each vertex into its chain as
   stored, merge. *)
C8_ReverseBeforeExpand ==
    \A i \in 1..Len(path_info_list) :
        path_info_list[i].path =
            merge_step(expand_step(G,
                reverse_step(strand, strip_step(unroll_step(kmer_paths[i])))))

C8_Witness ==
    /\ Len(path_info_list) >= 1
    /\ strand = NEG_STRAND
    /\ Len(last_vertices) >= 2
    /\ \E j \in 1..Len(last_vertices) : Len(G.chain[last_vertices[j]]) = 2
    /\ Last(path_info_list).path #
          merge_step(reverse_step(strand, expand_step(G, last_vertices)))

(***************************************************************************)
(* The transcript-id lines of the driver's loop (370-373), one step per    *)
(* access to the module-level counter: line 370 reads it into the          *)
(* PathInfo, line 371 ("+= 1") reads it again and then stores the sum.     *)
(* Each call reports the paths its finder handed out, todo[c] of them.     *)
(***************************************************************************)
Calls == 1..NumCalls

InitialIds == {0, 5}

DriverIdle ==
    /\ pc = "idle"
    /\ G = NoGraph
    /\ strand = POS_STRAND
    /\ partial_paths = <<>>
    /\ kmax = 2
    /\ max_paths = MaxReports
    /\ k = 2
    /\ K = NoGraph
    /\ K0 = NoGraph
    /\ path_bins = <<>>
    /\ attributed = <<>>
    /\ kmer_paths = <<>>
    /\ path_info_list = <<>>
    /\ error = "none"

CallsInit ==
    /\ DriverIdle
    /\ initial_id \in InitialIds
    /\ GLOBAL_TRANSCRIPT_ID = initial_id
    /\ tpc = [c \in Calls |-> "idle"]
    /\ todo \in [Calls -> 0..MaxReports]
    /\ info_tx_id = [c \in Calls |-> -1]
    /\ loaded = [c \in Calls |-> -1]
    /\ reported = <<>>

EnterCall(c) ==
    /\ tpc[c] = "idle"
    /\ tpc' = [tpc EXCEPT ![c] = "loop"]
    /\ UNCHANGED <<todo, info_tx_id, loaded, reported, GLOBAL_TRANSCRIPT_ID, initial_id>>
    /\ UNCHANGED driverVars

SetTxId(c) ==
    /\ tpc[c] = "loop"
    /\ todo[c] > 0
    /\ info_tx_id' = [info_tx_id EXCEPT ![c] = GLOBAL_TRANSCRIPT_ID]
    /\ tpc' = [tpc EXCEPT ![c] = "load"]
    /\ UNCHANGED <<todo, loaded, reported, GLOBAL_TRANSCRIPT_ID, initial_id>>
    /\ UNCHANGED driverVars

LoadCounter(c) ==
    /\ tpc[c] = "load"
    /\ loaded' = [loaded EXCEPT ![c] = GLOBAL_TRANSCRIPT_ID]
    /\ tpc' = [tpc EXCEPT ![c] = "store"]
    /\ UNCHANGED <<todo, info_tx_id, reported, GLOBAL_TRANSCRIPT_ID, initial_id>>
    /\ UNCHANGED driverVars

StoreCounter(c) ==
    /\ tpc[c] = "store"
    /\ GLOBAL_TRANSCRIPT_ID' = next_transcript_id(loaded[c])
    /\ reported' = Append(reported, [call |-> c, tx_id |-> info_tx_id[c]])
    /\ todo' = [todo EXCEPT ![c] = @ - 1]
    /\ tpc' = [tpc EXCEPT ![c] = "loop"]
    /\ UNCHANGED <<info_tx_id, loaded, initial_id>>
    /\ UNCHANGED driverVars

ReturnList(c) ==
    /\ tpc[c] = "loop"
    /\ todo[c] = 0
    /\ tpc' = [tpc EXCEPT ![c] = "done"]
    /\ UNCHANGED <<todo, info_tx_id, loaded, reported, GLOBAL_TRANSCRIPT_ID, initial_id>>
    /\ UNCHANGED driverVars

CallStep(c) ==
    EnterCall(c) \/ SetTxId(c) \/ LoadCounter(c) \/ StoreCounter(c) \/ ReturnList(c)

(* ParSpec: the calls run in threads of one process and interleave. *)
ParNext == \E c \in Calls : CallStep(c)

ParSpec == CallsInit /\ [][ParNext]_vars

(* SeqSpec: the calls run one after another. *)
OthersQuiet(c) == \A d \in Calls \ {c} : tpc[d] \in {"idle", "done"}

SeqNext == \E c \in Calls : OthersQuiet(c) /\ CallStep(c)

SeqSpec == CallsInit /\ [][SeqNext]_vars

AllReturned == \A c \in Calls : tpc[c] = "done"

(* C5: with calls interleaving arbitrarily, no two reported PathInfo entries
   carry the same tx_id, and no increment is lost: once every call has
   returned the counter is its initial value plus the number of reported
   paths. *)
C5_AtomicAllocation ==
    /\ \A i, j \in 1..Len(reported) : i # j => reported[i].tx_id # reported[j].tx_id
    /\ AllReturned => GLOBAL_TRANSCRIPT_ID = initial_id + Len(reported)

(* C6: over a sequence of calls the reported tx_ids strictly increase, within
   a call and from one call to the next, and the counter is never below a
   reported tx_id nor below its initial value: it is the initial value plus
   the number of ids handed out. *)
C6_TxIdsIncrease ==
    /\ \A i, j \in 1..Len(reported) : i < j => reported[i].tx_id < reported[j].tx_id
    /\ \A i \in 1..Len(reported) :
          initial_id <= reported[i].tx_id /\ reported[i].tx_id < GLOBAL_TRANSCRIPT_ID
    /\ GLOBAL_TRANSCRIPT_ID = initial_id + Len(reported)

C6_Witness ==
    /\ AllReturned
    /\ Len(reported) = 4
    /\ reported[2].call # reported[3].call
    /\ reported[1].call = reported[2].call

(***************************************************************************)
(* Sums over sets of k-mers, and the state after one attribution.          *)
(***************************************************************************)
RSub(a, b) == RAdd(a, <<-b[1], b[2]>>)

RECURSIVE attr_sum(_, _, _)
attr_sum(attrs, S, attr) ==
    IF S = {} THEN RZero
    ELSE LET x == CHOOSE y \in S : TRUE
         IN  RAdd(attrs[x][attr], attr_sum(attrs, S \ {x}, attr))

AfterAttribution == pc = "binned" /\ attributed # <<>>

last_path == Last(attributed)[1]

last_density == RInt(Last(attributed)[2])

SameGraph == K.nodes = K0.nodes /\ K.edges = K0.edges /\ DOMAIN K.node = DOMAIN K0.node

candidate_kmers ==
    LET L == k - Len(last_path)
        ceil == L - (L \div 2)
    IN  {w \in walks_of_length(G, k) : SubSeq(w, ceil + 1, ceil + Len(last_path)) = last_path}

(* C9: a partial path (p, d) shorter than k after extension is attributed to
   the set M of k-walks of the anchored G that hold p after ceil((k-len(p))/2)
   leading vertices.  M is not empty, its members are vertices of K, each
   member m gets d/|M| when the density T of M was 0 and d*density[m]/T
   otherwise, added to density, smooth_fwd and smooth_rev alike; the density
   added over M is d and nothing else in K changes. *)
C9_ShortPathShares ==
    /\ error \notin {"KeyError", "ZeroDivisionError"}
    /\ (AfterAttribution /\ Len(last_path) < k) =>
        LET M == candidate_kmers
            T == attr_sum(K0.node, M, "density")
            share(m) == IF T = RZero THEN RDiv(last_density, RInt(Cardinality(M)))
                        ELSE RDiv(RMul(last_density, K0.node[m].density), T)
        IN  /\ error = "none"
            /\ M # {}
            /\ M \subseteq K.nodes
            /\ SameGraph
            /\ \A m \in M :
                  /\ K.node[m].density = RAdd(K0.node[m].density, share(m))
                  /\ K.node[m].smfwd = RAdd(K0.node[m].smfwd, share(m))
                  /\ K.node[m].smrev = RAdd(K0.node[m].smrev, share(m))
                  /\ K.node[m].smtmp = K0.node[m].smtmp
            /\ \A v \in K.nodes \ M : K.node[v] = K0.node[v]
            /\ RSub(attr_sum(K.node, M, "density"), attr_sum(K0.node, M, "density"))
                  = last_density

C9_Witness ==
    /\ AfterAttribution
    /\ Len(last_path) < k
    /\ k = 3
    /\ Cardinality(candidate_kmers) = 4
    /\ last_density # RZero
    /\ \E m \in candidate_kmers : K0.node[m].density # RZero
    /\ \E m \in candidate_kmers : K.node[m] = K0.node[m]
    /\ \E m \in candidate_kmers : K.node[m] # K0.node[m]

windows == [i \in 1..(Len(last_path) - k + 1) |-> SubSeq(last_path, i, i + k - 1)]

times(d, n) == RMul(d, RInt(n))

(* C10: a partial path (p, d) of length at least k after extension is cut
   into its len(p)-k+1 windows of size k; each is a vertex of K (no assert
   fails), density grows by d per occurrence of the vertex among the
   windows, smooth_rev grows by d on the first window only, smooth_fwd by d
   on the last window only, and nothing else in K changes. *)
C10_LongPathWindows ==
    /\ error # "AssertionError"
    /\ (AfterAttribution /\ Len(last_path) >= k) =>
          /\ error = "none"
          /\ Range(windows) \subseteq K.nodes
          /\ SameGraph
          /\ \A v \in K.nodes :
                /\ K.node[v].density =
                      RAdd(K0.node[v].density,
                           times(last_density,
                                 Cardinality({i \in DOMAIN windows : windows[i] = v})))
                /\ K.node[v].smrev =
                      RAdd(K0.node[v].smrev, IF v = windows[1] THEN last_density ELSE RZero)
                /\ K.node[v].smfwd =
                      RAdd(K0.node[v].smfwd,
                           IF v = Last(windows) THEN last_density ELSE RZero)
                /\ K.node[v].smtmp = K0.node[v].smtmp

C10_Witness ==
    /\ AfterAttribution
    /\ Len(attributed) = 2
    /\ Len(attributed[1][1]) = k
    /\ attributed[1][2] > 0
    /\ Len(last_path) >= k + 2
    /\ last_density # RZero
    /\ K.node[windows[1]].smrev # RZero
    /\ K.node[windows[1]].smfwd = RZero
    /\ K.node[Last(windows)].smfwd # RZero

(* C7 as stated: with no partial path the call returns an empty list and no
   error, leaves G without a dummy vertex and allocates no tx_id. *)
C7_EmptyEvidenceReturnsEmptyList ==
    (partial_paths = <<>> /\ pc # "called") =>
        /\ error = "none"
        /\ pc = "returned"
        /\ path_info_list = <<>>
        /\ \A n \in G.nodes : exon_start(n) >= 0
        /\ GLOBAL_TRANSCRIPT_ID = initial_id

(***************************************************************************)
(* Maximal linear chains of K and the state after smoothing.               *)
(***************************************************************************)
chain_vertices == {v \in K.nodes : in_degree(K, v) = 1 /\ out_degree(K, v) = 1}

the_pred(v) == CHOOSE u \in predecessors(K, v) : TRUE

the_succ(v) == CHOOSE w \in successors(K, v) : TRUE

RECURSIVE chain_from(_)
chain_from(v) ==
    IF the_succ(v) \in chain_vertices THEN <<v>> \o chain_from(the_succ(v)) ELSE <<v>>

maximal_chains == {chain_from(h) : h \in {v \in chain_vertices : the_pred(v) \notin chain_vertices}}

AfterSmoothing == pc \in {"smoothed", "returned"}

fwd_gain(v) == RSub(K.node[v].smfwd, K0.node[v].smfwd)

rev_gain(v) == RSub(K.node[v].smrev, K0.node[v].smrev)

chain_gain(C) ==
    RSub(attr_sum(K.node, Range(C), "density"), attr_sum(K0.node, Range(C), "density"))

chain_own_mass(C) ==
    RAdd(attr_sum(K0.node, Range(C), "smfwd"), attr_sum(K0.node, Range(C), "smrev"))

chain_entering_mass(C) == RAdd(fwd_gain(C[1]), rev_gain(Last(C)))

(* C4 as stated: over every maximal linear chain of K, what smoothing adds
   to the chain (density + smooth_tmp before the commit, that is density
   after it, less density before smoothing) equals the boundary mass
   injected into the chain, whether that is read as the mass attribution
   left on the chain, the mass that crosses into the chain at its two ends,
   or both together, and whether or not smooth_tmp is counted once more on
   top of the committed density. *)
C4_ChainConservation ==
    AfterSmoothing =>
        \A C \in maximal_chains :
            LET injected == {chain_own_mass(C), chain_entering_mass(C),
                             RAdd(chain_own_mass(C), chain_entering_mass(C))}
            IN  \/ chain_gain(C) \in injected
                \/ RAdd(chain_gain(C), attr_sum(K.node, Range(C), "smtmp")) \in injected

(* C4: smoothing copies mass along a linear chain of K instead of conserving
   it.  Every chain vertex v has density after = density before +
   smooth_tmp, and smooth_tmp is what v received forward plus what it
   received in reverse; when v's predecessor has v as its only successor, v
   receives forward the predecessor's whole smooth_fwd, and when v's
   successor has v as its only predecessor, v receives in reverse the
   successor's whole smooth_rev. *)
C4_ChainCopiesMass ==
    AfterSmoothing =>
        \A v \in chain_vertices :
            /\ K0.node[v].smtmp = RZero
            /\ K.node[v].smtmp = RAdd(fwd_gain(v), rev_gain(v))
            /\ K.node[v].density = RAdd(K0.node[v].density, K.node[v].smtmp)
            /\ out_degree(K, the_pred(v)) = 1 => fwd_gain(v) = K.node[the_pred(v)].smfwd
            /\ in_degree(K, the_succ(v)) = 1 => rev_gain(v) = K.node[the_succ(v)].smrev

C4_Witness ==
    /\ AfterSmoothing
    /\ \E C \in maximal_chains :
          /\ Len(C) >= 2
          /\ fwd_gain(C[1]) # RZero
          /\ fwd_gain(C[2]) = K.node[C[1]].smfwd
          /\ chain_gain(C) # RAdd(chain_own_mass(C), chain_entering_mass(C))
    /\ \E C \in maximal_chains :
          /\ Len(C) >= 2
          /\ rev_gain(Last(C)) # RZero
          /\ rev_gain(C[Len(C) - 1]) = K.node[Last(C)].smrev

(***************************************************************************)
(* The order of attribution.                                               *)
(***************************************************************************)
is_extension(e, p) ==
    \E off \in 0..(Len(e) - Len(p)) :
        /\ SubSeq(e, off + 1, off + Len(p)) = p
        /\ \A j \in 1..(Len(e) - 1) : <<e[j], e[j + 1]>> \in G.edges
        /\ \A j \in 2..(off + 1) : in_degree(G, e[j]) = 1
        /\ in_degree(G, e[1]) # 1
        /\ \A j \in (off + Len(p))..(Len(e) - 1) : out_degree(G, e[j]) = 1
        /\ out_degree(G, Last(e)) # 1

bin_of_extended(e) == IF Len(e) < k THEN Len(e) ELSE k

attributed_from(f) ==
    /\ \A i, j \in DOMAIN f : f[i] = f[j] => i = j
    /\ \A i \in DOMAIN f :
          /\ attributed[i][2] = partial_paths[f[i]][2]
          /\ is_extension(attributed[i][1], partial_paths[f[i]][1])

(* C11: the paths attributed so far are the linear extensions of distinct
   partial paths, each with its density; a path of a longer bin
   min(extended length, k) comes before every path of a shorter bin, within
   a bin no path comes after one of strictly lower density, and once
   attribution is over every partial path has been attributed exactly
   once. *)
C11_AttributionOrder ==
    /\ \E f \in [DOMAIN attributed -> DOMAIN partial_paths] : attributed_from(f)
    /\ \A i, j \in DOMAIN attributed :
          i < j =>
              /\ bin_of_extended(attributed[i][1]) >= bin_of_extended(attributed[j][1])
              /\ bin_of_extended(attributed[i][1]) = bin_of_extended(attributed[j][1])
                    => attributed[i][2] >= attributed[j][2]
    /\ AfterSmoothing => Len(attributed) = Len(partial_paths)

C11_Witness ==
    /\ AfterSmoothing
    /\ Len(attributed) = 2
    /\ Len(attributed[1][1]) > Len(partial_paths[2][1])
    /\ Len(attributed[2][1]) > Len(partial_paths[1][1])
    /\ is_extension(attributed[1][1], partial_paths[2][1])
    /\ bin_of_extended(attributed[1][1]) > bin_of_extended(attributed[2][1])
    /\ attributed[1][2] < attributed[2][2]

(***************************************************************************)
(* The two smoothing passes, taken apart.                                  *)
(***************************************************************************)
after_forward_pass == smooth_iteration(K0, "smfwd")

JustSmoothed == pc = "smoothed" /\ path_info_list = <<>>

position(order, v) == CHOOSE i \in DOMAIN order : order[i] = v

is_topological(Kg, order) ==
    /\ Range(order) = Kg.nodes
    /\ Len(order) = Cardinality(Kg.nodes)
    /\ \A e \in Kg.edges : position(order, e[1]) < position(order, e[2])

(* What every u hands to each of its successors in a pass over Kg whose
   accumulator is smooth_attr, from the accumulator S_u that u holds when the
   pass is over. *)
handed(Kg, smooth_attr) ==
    [u \in Kg.nodes |->
        LET V == successors(Kg, u)
            T == attr_sum(K0.node, V, "density")
            S_u == Kg.node[u][smooth_attr]
        IN  [v \in V |-> IF T = RZero THEN RDiv(S_u, RInt(Cardinality(V)))
                         ELSE RDiv(RMul(S_u, K0.node[v].density), T)]]

RECURSIVE received(_, _, _)
received(shares, us, v) ==
    IF us = {} THEN RZero
    ELSE LET u == CHOOSE x \in us : TRUE
         IN  RAdd(shares[u][v], received(shares, us \ {u}, v))

RECURSIVE handed_out(_, _)
handed_out(share, vs) ==
    IF vs = {} THEN RZero
    ELSE LET v == CHOOSE x \in vs : TRUE
         IN  RAdd(share[v], handed_out(share, vs \ {v}))

pass_is_propagation(before, after, smooth_attr, other_attr) ==
    /\ after.nodes = before.nodes /\ after.edges = before.edges
    /\ \E order \in {topological_sort(before, before.nodes)} : is_topological(before, order)
    /\ \E shares \in {handed(after, smooth_attr)} :
          /\ \A v \in after.nodes :
                \E got \in {received(shares, predecessors(after, v), v)} :
                    /\ after.node[v][smooth_attr] = RAdd(before.node[v][smooth_attr], got)
                    /\ after.node[v].smtmp = RAdd(before.node[v].smtmp, got)
                    /\ after.node[v].density = K0.node[v].density
                    /\ after.node[v][other_attr] = before.node[v][other_attr]
          /\ \A u \in after.nodes :
                DOMAIN shares[u] # {} =>
                    handed_out(shares[u], DOMAIN shares[u]) = after.node[u][smooth_attr]

(* C12: each pass visits K in topological order, so every vertex hands to
   its successors shares of the accumulator it holds at the end of the pass
   (its own mass and all it received from its predecessors):
   S_u * density[v] / T when the pre-smooth density T of the successors is
   positive, S_u / |V| otherwise, added to smooth_tmp and to the pass
   accumulator, the shares summing to S_u.  No pass changes density; the
   reverse pass runs on the reversed K; the commit adds smooth_tmp into
   density on K with its edges restored. *)
C12_SmoothingPasses ==
    JustSmoothed =>
        \E fwd \in {after_forward_pass} :
        \E turned \in {reverse(fwd)} :
        \E rev \in {smooth_iteration(turned, "smrev")} :
            /\ \A v \in K0.nodes : K0.node[v].smtmp = RZero
            /\ pass_is_propagation(K0, fwd, "smfwd", "smrev")
            /\ pass_is_propagation(turned, rev, "smrev", "smfwd")
            /\ rev.edges = {<<e[2], e[1]>> : e \in K0.edges}
            /\ K.edges = K0.edges
            /\ K.nodes = K0.nodes
            /\ \A v \in K.nodes :
                  /\ K.node[v].smfwd = rev.node[v].smfwd
                  /\ K.node[v].smrev = rev.node[v].smrev
                  /\ K.node[v].smtmp = rev.node[v].smtmp
                  /\ K.node[v].density = RAdd(K0.node[v].density, K.node[v].smtmp)

C12_Witness ==
    /\ JustSmoothed
    /\ \E u \in K.nodes :
          /\ out_degree(K, u) >= 2
          /\ K.node[u].smfwd # RZero
          /\ attr_sum(K0.node, successors(K, u), "density") # RZero
          /\ \E v, w \in successors(K, u) : fwd_gain(v) # fwd_gain(w)
    /\ \E u \in K.nodes :
          /\ in_degree(K, u) >= 2
          /\ K.node[u].smrev # RZero
          /\ attr_sum(K0.node, predecessors(K, u), "density") # RZero
          /\ \E v, w \in predecessors(K, u) : rev_gain(v) # rev_gain(w)
    /\ \E u \in K.nodes :
          /\ fwd_gain(u) # RZero
          /\ out_degree(K, u) = 1
          /\ fwd_gain(the_succ(u)) = K.node[u].smfwd

====
